---- MODULE Spec2Model ----
(***************************************************************************)
(* The attention controllers of main.py (AttentionControl, EmptyControl,   *)
(* AttentionStore, AttentionControlEdit, AttentionReplace, AttentionRefine,*)
(* AttentionReweight, LocalBlend) as a state machine.                      *)
(*                                                                         *)
(* Tensors.  An attention tensor of shape (rows, queries, keys) is a       *)
(* record [shape, data].  shape carries the real axis lengths (64, 256,    *)
(* 1024, 4096 spatial positions, 77 tokens).  data holds the entries at    *)
(* QPos sampled query positions and Cols sampled key positions of every    *)
(* row: data[r][q][c].  Every controller operation acts independently on   *)
(* each query position; the key axis is only mixed by the mapper of the    *)
(* edit strategies, whose modelled values map sampled tokens to sampled    *)
(* tokens.                                                                 *)
(*                                                                         *)
(* Numbers.  Tensor entries are torch.float32.  An entry is modelled as    *)
(* the integer x that stands for x * 2^-27; the results of additions and   *)
(* products are rounded to 24 significant bits, ties to even (fl32), and   *)
(* quotients are kept as a pair <<m, e>> standing for m * 2^-e units.      *)
(*                                                                         *)
(* Storage.  Tensors live in a heap of storages; the controller holds      *)
(* references (views of a row range of one storage), as the Python         *)
(* objects do.  In-place writes change the storage, and with it every      *)
(* view of it.                                                             *)
(***************************************************************************)
EXTENDS Integers, Sequences, FiniteSets, TLC

(* ------------------------------ bounds -------------------------------- *)
Heads == 1        \* attention heads per prompt
Cols == 2         \* sampled key positions of a tensor
QPos == 2         \* sampled query positions of a tensor
MaxRun == 6       \* interceptions of a run of an EmptyControl / AttentionStore
MaxCalls == 3     \* interceptions driven while num_att_layers is unset

(* ------------------------- program constants --------------------------- *)
MAX_NUM_WORDS == 77

(* ------------------------------ float32 ------------------------------- *)
Pow2(n) == IF n = 0 THEN 1 ELSE IF n = 1 THEN 2 ELSE IF n = 2 THEN 4
           ELSE IF n = 3 THEN 8 ELSE IF n = 4 THEN 16 ELSE IF n = 5 THEN 32
           ELSE IF n = 6 THEN 64 ELSE IF n = 7 THEN 128 ELSE 256

Mant == 16777216      \* 2^24: a float32 significand has 24 bits

RECURSIVE Ulp(_)
\* the spacing of the float32 values around the magnitude x (in units)
Ulp(x) == IF x < Mant THEN 1 ELSE 2 * Ulp(x \div 2)

\* x rounded to the nearest multiple of u, ties to the even multiple
RoundTo(x, u) ==
    LET q == x \div u
        r == x % u
    IN  IF 2 * r < u THEN q * u
        ELSE IF 2 * r > u THEN (q + 1) * u
        ELSE IF q % 2 = 0 THEN q * u ELSE (q + 1) * u

\* the float32 nearest to the exact value x
fl32(x) == IF x < 0 THEN 0 - RoundTo(0 - x, Ulp(0 - x)) ELSE RoundTo(x, Ulp(x))

RECURSIVE Canon(_, _)
\* the canonical form of m * 2^-e: e = 0 or m odd
Canon(m, e) == IF m = 0 THEN <<0, 0>>
               ELSE IF e > 0 /\ m % 2 = 0 THEN Canon(m \div 2, e - 1)
               ELSE <<m, e>>

RECURSIVE DivScale(_, _, _)
\* least k with (x * 2^k) div s >= 2^23, for 0 < x and x div s < 2^23
DivScale(x, s, k) == IF (x * Pow2(k)) \div s >= Mant \div 2 THEN k
                     ELSE IF k >= 8 THEN k ELSE DivScale(x, s, k + 1)

RECURSIVE fl32div(_, _)
\* the float32 quotient x / s of a float32 x >= 0 by an integer s >= 1,
\* as the pair <<m, e>> standing for m * 2^-e
fl32div(x, s) ==
    IF x = 0 THEN <<0, 0>>
    ELSE IF x \div s >= Mant \div 2
    THEN LET u == Ulp(x \div s)
             q == x \div (s * u)
             r == x % (s * u)
             up == (2 * r > s * u) \/ (2 * r = s * u /\ q % 2 = 1)
         IN  <<(IF up THEN q + 1 ELSE q) * u, 0>>
    ELSE IF x < (Mant \div 512) * s
    THEN LET y == fl32div(x * 256, s) IN Canon(y[1], y[2] + 8)
    ELSE LET k == DivScale(x, s, 0)
             n == x * Pow2(k)
             q == n \div s
             r == n % s
             up == (2 * r > s) \/ (2 * r = s /\ q % 2 = 1)
         IN  Canon(IF up THEN q + 1 ELSE q, k)

RECURSIVE Float(_, _)
\* the float32 m * 2^-e as the pair <<M, E>> with 2^23 <= M < 2^24 that
\* stands for M * 2^-E, or <<0, 0>>
Float(m, e) == IF m = 0 THEN <<0, 0>>
               ELSE IF m < Mant \div 2 THEN Float(2 * m, e + 1)
               ELSE IF m >= Mant THEN Float(m \div 2, e - 1)
               ELSE <<m, e>>

\* one more bit of a long division by d: p is <<quotient, remainder>>
LongStep(p, d) == << 2 * p[1] + (2 * p[2]) \div d, (2 * p[2]) % d >>

RECURSIVE LongDiv(_, _, _)
\* <<(n * 2^k) div d, (n * 2^k) mod d>> for n < 2 * d
LongDiv(n, d, k) == IF k = 0 THEN << n \div d, n % d >>
                    ELSE LongStep(LongDiv(n, d, k - 1), d)

\* the quotient p[1] with remainder p[2] of a division by d, rounded to
\* the nearest integer, ties to even, times 2^-e
RoundQuotient(p, d, e) ==
    Float(IF 2 * p[2] > d \/ (2 * p[2] = d /\ p[1] % 2 = 1)
          THEN p[1] + 1 ELSE p[1], e)

\* the float32 quotient a / b of two float32 pairs, a >= 0 and b > 0
fl32quot(a, b) ==
    IF a[1] = 0 THEN <<0, 0>>
    ELSE IF a[1] >= b[1]
    THEN RoundQuotient(LongDiv(a[1], b[1], 23), b[1], a[2] - b[2] + 23)
    ELSE RoundQuotient(LongDiv(a[1], b[1], 24), b[1], a[2] - b[2] + 24)

\* a > b for two float32 pairs that are not negative
fl32gt(a, b) ==
    /\ a[1] > 0
    /\ b[1] = 0 \/ a[2] < b[2] \/ (a[2] = b[2] /\ a[1] > b[1])

(* ------------------------------ tensors ------------------------------- *)
\* f"{place_in_unet}_{'cross' if is_cross else 'self'}"
KeyOf(place_in_unet, is_cross) ==
    place_in_unet \o "_" \o (IF is_cross THEN "cross" ELSE "self")

\* the keys of get_empty_store(), in the order a dict iterates over them
KeyOrder == <<"down_cross", "mid_cross", "up_cross",
              "down_self", "mid_self", "up_self">>

Keys == {KeyOrder[i] : i \in 1..Len(KeyOrder)}

get_empty_store == [key \in Keys |-> <<>>]

\* the dict {} : a mapping without keys
EmptyDict == [key \in {} |-> <<>>]


\* one hooked attention layer of the denoising network: cross or self
\* attention, its stage, and its number of spatial positions
Layer(is_cross, place, res) == [is_cross |-> is_cross, place |-> place, res |-> res]

\* the networks driven through the controller: the hooked layers of one
\* forward pass, in call order
Archs == { << Layer(TRUE, "up", 256) >>,
           << Layer(FALSE, "down", 256), Layer(TRUE, "down", 4096) >>,
           << Layer(TRUE, "mid", 64), Layer(FALSE, "mid", 1024),
              Layer(TRUE, "mid", 64) >> }

\* the shape (rows, queries, keys) of the attention of a layer over n rows
ShapeOf(layer, n) ==
    << n, layer.res, IF layer.is_cross THEN MAX_NUM_WORDS ELSE layer.res >>

\* the first entry of the attention tensors the network produces: small
\* values (seeds 1, 2), and values with a full 24 bit significand (seed 3)
Base(seed) == IF seed = 1 THEN 1 ELSE IF seed = 2 THEN 2 ELSE 11184814

\* the entries of the attention tensor with n rows produced from a seed
InputData(seed, n) ==
    [r \in 1..n |-> [q \in 1..QPos |-> [c \in 1..Cols |->
        Base(seed) + 4 * ((r - 1) * QPos * Cols + (q - 1) * Cols + (c - 1))]]]

Tensor(shape, data) == [shape |-> shape, data |-> data]

(* ------------------------------ storage ------------------------------- *)
\* a view of n rows of the storage sid, starting after row lo
Ref(sid, lo, n) == [sid |-> sid, lo |-> lo, n |-> n]

ViewData(h, ref) == SubSeq(h[ref.sid].data, ref.lo + 1, ref.lo + ref.n)

ViewShape(h, ref) == << ref.n, h[ref.sid].shape[2], h[ref.sid].shape[3] >>

\* an in-place write of rows through a view
WriteRows(h, ref, rows) ==
    [h EXCEPT ![ref.sid].data =
        [r \in 1..Len(@) |-> IF r > ref.lo /\ r <= ref.lo + ref.n
                             THEN rows[r - ref.lo] ELSE @[r]]]

\* the second block in place of the sum: = for +=
AddRows_assign(a, b) ==
    [r \in 1..Len(a) |-> [q \in 1..Len(a[r]) |-> [c \in 1..Len(a[r][q]) |->
        b[r][q][c]]]]

\* elementwise float32 sum of two blocks of rows
AddRows(a, b) ==
    [r \in 1..Len(a) |-> [q \in 1..Len(a[r]) |-> [c \in 1..Len(a[r][q]) |->
        fl32(a[r][q][c] + b[r][q][c])]]]

\* the references held by a store
RefsOf(store) ==
    UNION {{store[key][i] : i \in 1..Len(store[key])} : key \in DOMAIN store}


(* --------------------------- configuration ---------------------------- *)
\* a fraction of the steps, n / d with d a power of two (so that the
\* double product num_steps * fraction is exact)
Frac(n, d) == << n, d >>

\* int(num_steps * fraction)
IntOfProduct(num_steps, f) == (num_steps * f[1]) \div f[2]

\* self_replace_steps: a float, or a pair of floats
AsFloat(f) == [is_float |-> TRUE, lo |-> Frac(0, 1), hi |-> f]
AsPair(f0, f1) == [is_float |-> FALSE, lo |-> f0, hi |-> f1]

\* ptp_utils.get_time_words_attention_alpha for one window shared by all
\* words: row t is 1 at every token inside the window, 0 outside
get_time_words_attention_alpha(prompts, num_steps, cross_replace_steps) ==
    LET start == IntOfProduct(num_steps, cross_replace_steps.lo)
        end == IntOfProduct(num_steps, cross_replace_steps.hi)
    IN  [t \in 1..num_steps |-> [b \in 1..(prompts - 1) |-> [c \in 1..Cols |->
            IF start <= t - 1 /\ t - 1 < end THEN 1 ELSE 0]]]

NoLocalBlend == [attached |-> FALSE, alpha_layers |-> <<>>,
                 threshold |-> Frac(0, 1)]

\* LocalBlend.__init__ ; word_inds[i] are the token positions of the words
\* of prompt i (ptp_utils.get_word_inds)
LocalBlend_init(prompts, word_inds, threshold) ==
    [attached |-> TRUE,
     alpha_layers |-> [i \in 1..prompts |-> [c \in 1..Cols |->
                          IF c \in word_inds[i] THEN 1 ELSE 0]],
     threshold |-> threshold]

NoController == [kind |-> "None", mapper |-> <<>>, alphas |-> <<>>]

\* AttentionControl.__init__ : the fields shared by every controller;
\* prompts is the number of prompts of the run (the batch of the network).
\* The record also keeps the argument self_replace_steps as it was given.
AttentionControl_init(kind, prompts) ==
    [kind |-> kind, batch_size |-> prompts, num_steps |-> 0,
     cross_replace_alpha |-> <<>>, num_self_replace |-> << 0, 0 >>,
     local_blend |-> NoLocalBlend, mapper |-> <<>>, alphas |-> <<>>,
     equalizer |-> <<>>, prev_controller |-> NoController,
     self_replace_steps |-> AsFloat(Frac(0, 1))]

\* AttentionControlEdit.__init__
AttentionControlEdit_init(kind, prompts, num_steps, cross_replace_steps, self_replace_steps, local_blend) ==
    LET srs == IF self_replace_steps.is_float
               THEN << Frac(0, 1), self_replace_steps.hi >>
               ELSE << self_replace_steps.lo, self_replace_steps.hi >>
    IN  [AttentionControl_init(kind, prompts) EXCEPT
            !.num_steps = num_steps,
            !.cross_replace_alpha =
                get_time_words_attention_alpha(prompts, num_steps,
                                               cross_replace_steps),
            !.num_self_replace = << IntOfProduct(num_steps, srs[1]),
                                    IntOfProduct(num_steps, srs[2]) >>,
            !.local_blend = local_blend,
            !.self_replace_steps = self_replace_steps]

\* AttentionReplace.__init__ ; mapper[b][w][n] is the replacement mapper
AttentionReplace_init(prompts, num_steps, cross_replace_steps, self_replace_steps, local_blend, mapper) ==
    [AttentionControlEdit_init("Replace", prompts, num_steps,
        cross_replace_steps, self_replace_steps, local_blend)
     EXCEPT !.mapper = mapper]

\* AttentionRefine.__init__ ; mapper[b][n] is a token index of the
\* reference prompt (-1: none), alphas[b][n] its weight
AttentionRefine_init(prompts, num_steps, cross_replace_steps, self_replace_steps, local_blend, mapper, alphas) ==
    [AttentionControlEdit_init("Refine", prompts, num_steps,
        cross_replace_steps, self_replace_steps, local_blend)
     EXCEPT !.mapper = mapper, !.alphas = alphas]

\* AttentionReweight.__init__
AttentionReweight_init(prompts, num_steps, cross_replace_steps, self_replace_steps, equalizer, local_blend, controller) ==
    [AttentionControlEdit_init("Reweight", prompts, num_steps,
        cross_replace_steps, self_replace_steps, local_blend)
     EXCEPT !.equalizer = equalizer,
            !.prev_controller = [kind |-> controller.kind,
                                 mapper |-> controller.mapper,
                                 alphas |-> controller.alphas]]

\* get_equalizer for one selected word whose token positions are inds:
\* torch.ones(len(values), 77) with equalizer[:, inds] = values.  The
\* assignment broadcasts values along the positions: every row gets
\* values[k] at inds[k] (one value goes to every position), and the call
\* raises (no equalizer, <<>>) if there are several values and not as
\* many as positions.
get_equalizer(inds, values) ==
    IF Len(values) # 1 /\ Len(values) # Len(inds)
    THEN << >>
    ELSE [j \in 1..Len(values) |-> [n \in 1..Cols |->
            IF \E k \in 1..Len(inds) : inds[k] = n
            THEN values[IF Len(values) = 1 THEN 1
                        ELSE CHOOSE k \in 1..Len(inds) : inds[k] = n]
            ELSE 1]]

\* replacement mappers: the identity, and tokens moved one position on
IdentityMapper(prompts) ==
    [b \in 1..(prompts - 1) |-> [w \in 1..Cols |-> [n \in 1..Cols |->
        IF w = n THEN 1 ELSE 0]]]
ShiftMapper(prompts) ==
    [b \in 1..(prompts - 1) |-> [w \in 1..Cols |-> [n \in 1..Cols |->
        IF n = (w % Cols) + 1 THEN 1 ELSE 0]]]

\* refinement mappers: equal prompts, and one token inserted in front
SameIndex(prompts) == [b \in 1..(prompts - 1) |-> [n \in 1..Cols |-> n]]
AllOnes(prompts) == [b \in 1..(prompts - 1) |-> [n \in 1..Cols |-> 1]]
InsertIndex(prompts) ==
    [b \in 1..(prompts - 1) |-> [n \in 1..Cols |-> IF n = 1 THEN -1 ELSE n - 1]]
InsertAlphas(prompts) ==
    [b \in 1..(prompts - 1) |-> [n \in 1..Cols |-> IF n = 1 THEN 0 ELSE 1]]

Half == Frac(1, 2)
One == Frac(1, 1)

EmptyControl_init == AttentionControl_init("Empty", 2)
AttentionStore_init == AttentionControl_init("Store", 2)

ReplaceNull == AttentionReplace_init(2, 2, AsFloat(One), AsFloat(Half),
                                     NoLocalBlend, IdentityMapper(2))
ReplaceShift == AttentionReplace_init(3, 3, AsFloat(Half), AsPair(Half, One),
                                      NoLocalBlend, ShiftMapper(3))
RefineSame == AttentionRefine_init(2, 2, AsFloat(One), AsFloat(One),
                                   NoLocalBlend, SameIndex(2), AllOnes(2))
RefineInsert == AttentionRefine_init(2, 2, AsFloat(Half), AsFloat(Half),
                                     NoLocalBlend, InsertIndex(2),
                                     InsertAlphas(2))
ReplaceBlend == AttentionReplace_init(2, 2, AsFloat(One), AsFloat(One),
                                      LocalBlend_init(2, << {1}, {Cols} >>,
                                                      Frac(3, 10)),
                                      ShiftMapper(2))
ReplaceBlendWords == AttentionReplace_init(2, 2, AsFloat(One), AsFloat(One),
                                           LocalBlend_init(2, << {Cols}, {1} >>,
                                                           Frac(13, 16)),
                                           IdentityMapper(2))
ReplaceBlendNull == AttentionReplace_init(2, 2, AsFloat(One), AsFloat(One),
                                          LocalBlend_init(2, << {1}, {Cols} >>,
                                                          Frac(13, 16)),
                                          IdentityMapper(2))
RefineBlend == AttentionRefine_init(3, 2, AsFloat(One), AsFloat(Half),
                                    LocalBlend_init(3, << {1}, {1}, {Cols} >>,
                                                    Frac(1, 2)),
                                    SameIndex(3), AllOnes(3))
ReweightAlone == AttentionReweight_init(2, 2, AsFloat(One), AsFloat(Half),
                                        get_equalizer(<< 1 >>, << 2 >>),
                                        NoLocalBlend, NoController)
ReweightReplace == AttentionReweight_init(3, 2, AsFloat(One), AsFloat(Half),
                                          get_equalizer(<< 1, Cols >>, << 3, 0 >>),
                                          NoLocalBlend, ReplaceShift)
ReweightRefine == AttentionReweight_init(2, 2, AsFloat(Half), AsFloat(One),
                                         get_equalizer(<< 1 >>, << 2 >>),
                                         NoLocalBlend, RefineInsert)
ReweightNull == AttentionReweight_init(3, 2, AsFloat(One), AsFloat(Half),
                                       get_equalizer(<< Cols >>, << 3 >>),
                                       NoLocalBlend,
                                       AttentionReplace_init(3, 2, AsFloat(One),
                                           AsFloat(Half), NoLocalBlend,
                                           IdentityMapper(3)))


(* ------------------------------- state -------------------------------- *)
VARIABLES
    LOW_RESOURCE,     \* the module flag LOW_RESOURCE
    layers,           \* the hooked layers of the network, in call order
    controller,       \* the fields of the controller set by its __init__
    num_att_layers,   \* AttentionControl.num_att_layers
    cur_step,         \* AttentionControl.cur_step
    cur_att_layer,    \* AttentionControl.cur_att_layer
    step_store,       \* AttentionStore.step_store : key -> references
    attention_store,  \* AttentionStore.attention_store : key -> references
    heap,             \* the storages of the live tensors
    ncalls,           \* interceptions since construction or reset
    nbetween,         \* invocations of between_steps since then
    uniform,          \* the seed of every interception since then, if they
                      \* all had the same (0: none yet, -1: different ones)
    history,          \* per completed step since then, the entries of the
                      \* tensors of the step buffer at the step boundary
    last              \* the last operation: its arguments and its result

vars == << LOW_RESOURCE, layers, controller, num_att_layers, cur_step,
           cur_att_layer, step_store, attention_store, heap,
           ncalls, nbetween, uniform, history, last >>

IsStore == controller.kind # "Empty"
IsEdit == controller.kind \in {"Replace", "Refine", "Reweight"}

(* ------------------------- AttentionControl --------------------------- *)
\* num_uncond_att_layers with the flag the other way round
num_uncond_att_layers_inverted == IF LOW_RESOURCE THEN 0 ELSE num_att_layers

\* num_uncond_att_layers without the test of the flag
num_uncond_att_layers_unflagged == num_att_layers

\* AttentionControl.num_uncond_att_layers
num_uncond_att_layers == IF LOW_RESOURCE THEN num_att_layers ELSE 0

(* -------------------------- AttentionStore ---------------------------- *)
\* AttentionStore.forward without the test of the size
AttentionStore_forward_unfiltered(h, ss, attn, is_cross, place_in_unet) ==
    LET key == KeyOf(place_in_unet, is_cross)
    IN  IF key \in DOMAIN ss
        THEN [raised |-> FALSE,
              step_store |-> [ss EXCEPT ![key] = Append(@, attn)]]
        ELSE [raised |-> TRUE, step_store |-> ss]

\* AttentionStore.forward: the tensor is appended to the step buffer, the
\* returned tensor is the argument; step_store[key] raises KeyError for a
\* key the buffer does not have
AttentionStore_forward(h, ss, attn, is_cross, place_in_unet) ==
    LET key == KeyOf(place_in_unet, is_cross)
    IN  IF ViewShape(h, attn)[2] <= 32 * 32
        THEN IF key \in DOMAIN ss
             THEN [raised |-> FALSE,
                   step_store |-> [ss EXCEPT ![key] = Append(@, attn)]]
             ELSE [raised |-> TRUE, step_store |-> ss]
        ELSE [raised |-> FALSE, step_store |-> ss]

\* a += b is defined: b broadcasts to the shape sa of a when each of its
\* axes has the size of the axis of a, or size 1
InPlaceAddable(sa, sb) ==
    \A d \in 1..Len(sa) : sb[d] = sa[d] \/ sb[d] = 1

\* the block b of shape sb broadcast to the block a of shape sa: an axis
\* of size 1 is repeated
Broadcast(a, b, sb) ==
    [r \in 1..Len(a) |-> [q \in 1..Len(a[r]) |-> [c \in 1..Len(a[r][q]) |->
        b[IF sb[1] = 1 THEN 1 ELSE r][IF sb[2] = 1 THEN 1 ELSE q]
         [IF sb[3] = 1 THEN 1 ELSE c]]]]

RECURSIVE Accumulate(_, _, _, _, _)
\* the loops of between_steps over the keys and positions of
\* attention_store, from key number k and position i on:
\* attention_store[key][i] += step_store[key][i], in place
Accumulate(h, as, ss, k, i) ==
    IF k > Len(KeyOrder) THEN [raised |-> FALSE, heap |-> h]
    ELSE LET key == KeyOrder[k]
         IN  IF key \notin DOMAIN as \/ i > Len(as[key])
             THEN Accumulate(h, as, ss, k + 1, 1)
             ELSE IF key \notin DOMAIN ss \/ i > Len(ss[key])
                  THEN [raised |-> TRUE, heap |-> h]
                  ELSE IF ~InPlaceAddable(ViewShape(h, as[key][i]),
                                          ViewShape(h, ss[key][i]))
                  THEN [raised |-> TRUE, heap |-> h]
                  ELSE Accumulate(
                         WriteRows(h, as[key][i],
                                   AddRows(ViewData(h, as[key][i]),
                                           Broadcast(ViewData(h, as[key][i]),
                                                     ViewData(h, ss[key][i]),
                                                     ViewShape(h, ss[key][i])))),
                         as, ss, k, i + 1)

\* between_steps that extends the lists of the cumulative store by those
\* of the step buffer
AttentionStore_between_steps_extend(h, ss, as) ==
    IF DOMAIN as = {}
    THEN [raised |-> FALSE, heap |-> h, step_store |-> get_empty_store,
          attention_store |-> ss]
    ELSE [raised |-> FALSE, heap |-> h, step_store |-> get_empty_store,
          attention_store |-> [key \in DOMAIN as |-> as[key] \o ss[key]]]

\* AttentionStore.between_steps
AttentionStore_between_steps(h, ss, as) ==
    IF DOMAIN as = {}
    THEN [raised |-> FALSE, heap |-> h, step_store |-> get_empty_store,
          attention_store |-> ss]
    ELSE LET acc == Accumulate(h, as, ss, 1, 1)
         IN  [raised |-> acc.raised, heap |-> acc.heap,
              step_store |-> IF acc.raised THEN ss ELSE get_empty_store,
              attention_store |-> as]

\* between_steps of the controller: AttentionControl's does nothing
between_steps(h, ss, as) ==
    IF IsStore THEN AttentionStore_between_steps(h, ss, as)
    ELSE [raised |-> FALSE, heap |-> h, step_store |-> ss,
          attention_store |-> as]

\* get_average_attention dividing by the number of the step under way
get_average_attention_next ==
    [key \in DOMAIN attention_store |->
        [i \in 1..Len(attention_store[key]) |->
            LET item == attention_store[key][i]
                d == ViewData(heap, item)
            IN  Tensor(ViewShape(heap, item),
                       [r \in 1..Len(d) |-> [q \in 1..QPos |-> [c \in 1..Cols |->
                            fl32div(d[r][q][c], cur_step + 1)]]])]]

\* AttentionStore.get_average_attention
get_average_attention ==
    [key \in DOMAIN attention_store |->
        [i \in 1..Len(attention_store[key]) |->
            LET item == attention_store[key][i]
                d == ViewData(heap, item)
            IN  Tensor(ViewShape(heap, item),
                       [r \in 1..Len(d) |-> [q \in 1..QPos |-> [c \in 1..Cols |->
                            fl32div(d[r][q][c], cur_step)]]])]]


(* ------------------------ AttentionControlEdit ------------------------ *)
RECURSIVE StripOnes(_, _)
\* a shape without leading axes of length 1, down to n axes (what a slice
\* assignment drops from the assigned value before it copies)
StripOnes(shape, n) == IF Len(shape) > n /\ shape[1] = 1
                       THEN StripOnes(Tail(shape), n) ELSE shape

\* whether a value of shape src can be assigned to a slice of shape dst
Assignable(src, dst) ==
    LET s == StripOnes(src, Len(dst))
        d == Len(dst) - Len(s)
    IN  /\ d >= 0
        /\ \A i \in 1..Len(s) : s[i] = dst[i + d] \/ s[i] = 1

RECURSIVE SumTerms(_, _)
\* the float32 sum of the first n terms of a sequence, left to right
SumTerms(terms, n) == IF n = 0 THEN 0
                      ELSE IF n = 1 THEN terms[1]
                      ELSE fl32(SumTerms(terms, n - 1) + terms[n])

\* a token index of the mapper as a sampled column; -1 is the last token
Column(ind) == IF ind = -1 THEN Cols ELSE ind

\* replace_self_attention with the bound of AttentionStore.forward
replace_self_attention_32(attn_base, att_replace) ==
    IF att_replace.shape[3] <= 32 * 32
    THEN Tensor(<< att_replace.shape[1] >> \o attn_base.shape,
                [b \in 1..att_replace.shape[1] |-> attn_base.data])
    ELSE att_replace

\* AttentionControlEdit.replace_self_attention
replace_self_attention(attn_base, att_replace) ==
    IF att_replace.shape[3] <= 16 * 16
    THEN Tensor(<< att_replace.shape[1] >> \o attn_base.shape,
                [b \in 1..att_replace.shape[1] |-> attn_base.data])
    ELSE att_replace

\* AttentionReplace.replace_cross_attention:
\* einsum('hpw,bwn->bhpn', attn_base, mapper)
AttentionReplace_replace_cross_attention(c, attn_base, att_replace) ==
    Tensor(<< Len(c.mapper), attn_base.shape[1], attn_base.shape[2],
              MAX_NUM_WORDS >>,
           [b \in 1..Len(c.mapper) |-> [j \in 1..Len(attn_base.data) |->
            [q \in 1..QPos |-> [n \in 1..Cols |->
                SumTerms([w \in 1..Cols |->
                            fl32(attn_base.data[j][q][w] * c.mapper[b][w][n])],
                         Cols)]]]])

\* AttentionRefine.replace_cross_attention
AttentionRefine_replace_cross_attention(c, attn_base, att_replace) ==
    Tensor(<< Len(c.mapper), attn_base.shape[1], attn_base.shape[2],
              MAX_NUM_WORDS >>,
           [b \in 1..Len(c.mapper) |-> [j \in 1..Len(attn_base.data) |->
            [q \in 1..QPos |-> [n \in 1..Cols |->
                fl32(fl32(attn_base.data[j][q][Column(c.mapper[b][n])]
                          * c.alphas[b][n])
                     + fl32(att_replace.data[b][j][q][n]
                            * (1 - c.alphas[b][n])))]]]])

\* replace_cross_attention of a controller wrapped by AttentionReweight
prev_replace_cross_attention(c, attn_base, att_replace) ==
    IF c.kind = "Replace"
    THEN AttentionReplace_replace_cross_attention(c, attn_base, att_replace)
    ELSE AttentionRefine_replace_cross_attention(c, attn_base, att_replace)

\* a tensor that cannot be formed: the operands do not broadcast
NoTensor == Tensor(<< 0 >>, << >>)

\* base[None] * equalizer[:, None, None, :] for base of rows many leading
\* entries (the edited prompts, or one for the reference alone): the
\* leading axis of base and the rows of the equalizer broadcast
Equalized(shape, data, equalizer) ==
    IF Len(data) # Len(equalizer) /\ Len(data) # 1 /\ Len(equalizer) # 1
    THEN NoTensor
    ELSE Tensor(shape,
                [b \in 1..(IF Len(data) = 1 THEN Len(equalizer) ELSE Len(data)) |->
                 [j \in 1..Len(data[1]) |-> [q \in 1..QPos |-> [n \in 1..Cols |->
                    fl32(data[IF Len(data) = 1 THEN 1 ELSE b][j][q][n]
                         * equalizer[IF Len(equalizer) = 1 THEN 1 ELSE b][n])]]]])

\* replace_cross_attention of AttentionReweight returning the reference
\* attention without the product by the equalizer
AttentionReweight_replace_cross_attention_unscaled(c, attn_base, att_replace) ==
    Equalized(<< Len(c.equalizer) >> \o attn_base.shape, << attn_base.data >>,
              [j \in 1..Len(c.equalizer) |-> [n \in 1..Cols |-> 1]])

\* AttentionReweight.replace_cross_attention
AttentionReweight_replace_cross_attention(c, attn_base, att_replace) ==
    IF c.prev_controller.kind # "None"
    THEN LET base == prev_replace_cross_attention(c.prev_controller,
                                                  attn_base, att_replace)
         IN  Equalized(<< 1, IF Len(base.data) = 1 THEN Len(c.equalizer)
                             ELSE Len(base.data) >> \o Tail(base.shape),
                       base.data, c.equalizer)
    ELSE Equalized(<< Len(c.equalizer) >> \o attn_base.shape,
                   << attn_base.data >>, c.equalizer)

\* replace_cross_attention of the strategy
replace_cross_attention(c, attn_base, att_replace) ==
    IF c.kind = "Replace"
    THEN AttentionReplace_replace_cross_attention(c, attn_base, att_replace)
    ELSE IF c.kind = "Refine"
    THEN AttentionRefine_replace_cross_attention(c, attn_base, att_replace)
    ELSE AttentionReweight_replace_cross_attention(c, attn_base, att_replace)

\* the cross-attention branch with the weights of the two terms exchanged
CrossBlend_exchanged(c, step, attn_base, attn_repalce) ==
    LET alpha_words == c.cross_replace_alpha[step + 1]
        new == replace_cross_attention(c, attn_base, attn_repalce)
    IN  IF Len(new.data) # 1 /\ Len(new.data) # Len(attn_repalce.data)
        THEN NoTensor
        ELSE Tensor(IF Len(new.data) = 1
                    THEN SubSeq(new.shape, 1, Len(new.shape) - 4)
                         \o attn_repalce.shape
                    ELSE new.shape,
               [b \in 1..Len(attn_repalce.data) |->
                [j \in 1..Len(attn_repalce.data[b]) |->
                 [q \in 1..QPos |-> [n \in 1..Cols |->
                    fl32(fl32(new.data[IF Len(new.data) = 1 THEN 1 ELSE b][j][q][n]
                              * (1 - alpha_words[b][n]))
                         + fl32(alpha_words[b][n]
                                * attn_repalce.data[b][j][q][n]))]]]])

\* the cross-attention branch of AttentionControlEdit.forward:
\* replace_cross_attention(...) * alpha_words + (1 - alpha_words) * attn_repalce
CrossBlend(c, step, attn_base, attn_repalce) ==
    LET alpha_words == c.cross_replace_alpha[step + 1]
        new == replace_cross_attention(c, attn_base, attn_repalce)
    IN  IF Len(new.data) # 1 /\ Len(new.data) # Len(attn_repalce.data)
        THEN NoTensor
        ELSE Tensor(IF Len(new.data) = 1
                    THEN SubSeq(new.shape, 1, Len(new.shape) - 4)
                         \o attn_repalce.shape
                    ELSE new.shape,
               [b \in 1..Len(attn_repalce.data) |->
                [j \in 1..Len(attn_repalce.data[b]) |->
                 [q \in 1..QPos |-> [n \in 1..Cols |->
                    fl32(fl32(new.data[IF Len(new.data) = 1 THEN 1 ELSE b][j][q][n]
                              * alpha_words[b][n])
                         + fl32((1 - alpha_words[b][n])
                                * attn_repalce.data[b][j][q][n]))]]]])

\* the end of the edit branch assigning to all of attn: attn[:] = new
EditAssign_all(h, ss1, attn, rows, hh, attn_repalce, new, c) ==
    IF ~Assignable(new.shape, attn_repalce.shape)
    THEN [raised |-> TRUE, heap |-> h, step_store |-> ss1,
          shape |-> attn_repalce.shape]
    ELSE [raised |-> FALSE,
          heap |-> WriteRows(h, attn,
                     [r \in 1..Len(rows) |->
                        new.data[IF r <= hh THEN 1 ELSE (r - 1) \div hh]
                                [((r - 1) % hh) + 1]]),
          step_store |-> ss1,
          shape |-> << c.batch_size * hh >> \o Tail(Tail(attn_repalce.shape))]

\* the end of the edit branch without the reshape back to three axes
EditAssign_batched(h, ss1, attn, rows, hh, attn_repalce, new, c) ==
    IF ~Assignable(new.shape, attn_repalce.shape)
    THEN [raised |-> TRUE, heap |-> h, step_store |-> ss1,
          shape |-> attn_repalce.shape]
    ELSE [raised |-> FALSE,
          heap |-> WriteRows(h, attn,
                     [r \in 1..Len(rows) |->
                        IF r <= hh THEN rows[r]
                        ELSE new.data[(r - 1) \div hh][((r - 1) % hh) + 1]]),
          step_store |-> ss1,
          shape |-> << c.batch_size >> \o Tail(attn_repalce.shape)]

\* the end of the edit branch of AttentionControlEdit.forward:
\* attn[1:] = new, in place in the storage of attn, and the reshape back
EditAssign(h, ss1, attn, rows, hh, attn_repalce, new, c) ==
    IF ~Assignable(new.shape, attn_repalce.shape)
    THEN [raised |-> TRUE, heap |-> h, step_store |-> ss1,
          shape |-> attn_repalce.shape]
    ELSE [raised |-> FALSE,
          heap |-> WriteRows(h, attn,
                     [r \in 1..Len(rows) |->
                        IF r <= hh THEN rows[r]
                        ELSE new.data[(r - 1) \div hh][((r - 1) % hh) + 1]]),
          step_store |-> ss1,
          shape |-> << c.batch_size * hh >> \o Tail(Tail(attn_repalce.shape))]

\* the edit branch of AttentionControlEdit.forward, after the reshape to
\* (batch_size, h, ...): attn_base, attn_repalce = attn[0], attn[1:]
EditSplit(h, ss1, attn, is_cross, c, step, rows, hh, attn_base, attn_repalce) ==
    EditAssign(h, ss1, attn, rows, hh, attn_repalce,
               IF is_cross
               THEN CrossBlend(c, step, attn_base, attn_repalce)
               ELSE replace_self_attention(attn_base, attn_repalce),
               c)

\* forward editing cross-attention only inside the self-attention window
EditBranch_windowed(h, ss1, attn, is_cross, c, step, shape, rows, hh) ==
    IF c.num_self_replace[1] <= step /\ step < c.num_self_replace[2]
    THEN IF c.batch_size * hh # shape[1]
            \/ (is_cross /\ step + 1 > Len(c.cross_replace_alpha))
         THEN [raised |-> TRUE, heap |-> h, step_store |-> ss1,
               shape |-> shape]
         ELSE EditSplit(h, ss1, attn, is_cross, c, step, rows, hh,
                  Tensor(<< hh, shape[2], shape[3] >>, SubSeq(rows, 1, hh)),
                  Tensor(<< c.batch_size - 1, hh, shape[2], shape[3] >>,
                         [b \in 1..(c.batch_size - 1) |->
                             [j \in 1..hh |-> rows[b * hh + j]]]))
    ELSE [raised |-> FALSE, heap |-> h, step_store |-> ss1, shape |-> shape]

\* AttentionControlEdit.forward after the call of AttentionStore.forward
EditBranch(h, ss1, attn, is_cross, c, step, shape, rows, hh) ==
    IF is_cross \/ (c.num_self_replace[1] <= step
                    /\ step < c.num_self_replace[2])
    THEN IF c.batch_size * hh # shape[1]
            \/ (is_cross /\ step + 1 > Len(c.cross_replace_alpha))
         THEN [raised |-> TRUE, heap |-> h, step_store |-> ss1,
               shape |-> shape]
         ELSE EditSplit(h, ss1, attn, is_cross, c, step, rows, hh,
                  Tensor(<< hh, shape[2], shape[3] >>, SubSeq(rows, 1, hh)),
                  Tensor(<< c.batch_size - 1, hh, shape[2], shape[3] >>,
                         [b \in 1..(c.batch_size - 1) |->
                             [j \in 1..hh |-> rows[b * hh + j]]]))
    ELSE [raised |-> FALSE, heap |-> h, step_store |-> ss1, shape |-> shape]

\* AttentionControlEdit.forward after super().forward with the outcome s
EditStored(h, s, attn, is_cross, c, step) ==
    IF s.raised
    THEN [raised |-> TRUE, heap |-> h, step_store |-> s.step_store,
          shape |-> ViewShape(h, attn)]
    ELSE EditBranch(h, s.step_store, attn, is_cross, c, step,
                    ViewShape(h, attn), ViewData(h, attn),
                    ViewShape(h, attn)[1] \div c.batch_size)

\* AttentionControlEdit.forward on the view attn of the heap h; the
\* result is returned in the storage of attn, with the shape given
AttentionControlEdit_forward(h, ss, attn, is_cross, place_in_unet, c, step) ==
    EditStored(h, AttentionStore_forward(h, ss, attn, is_cross, place_in_unet),
               attn, is_cross, c, step)

\* the outcome s of AttentionStore.forward as the outcome of forward
StoreOutcome(h, s, attn) ==
    [raised |-> s.raised, heap |-> h, step_store |-> s.step_store,
     shape |-> ViewShape(h, attn)]

\* forward of the controller
forward(h, ss, attn, is_cross, place_in_unet) ==
    IF controller.kind = "Empty"
    THEN [raised |-> FALSE, heap |-> h, step_store |-> ss,
          shape |-> ViewShape(h, attn)]
    ELSE IF controller.kind = "Store"
    THEN StoreOutcome(h, AttentionStore_forward(h, ss, attn, is_cross,
                                                place_in_unet), attn)
    ELSE AttentionControlEdit_forward(h, ss, attn, is_cross, place_in_unet,
                                      controller, cur_step)


(* ----------------------------- LocalBlend ----------------------------- *)
\* The sampled query position q of an attention tensor is its position
\* 2 * (q - 1); tensors are taken to be zero at the positions not sampled.
\* reshape() lays the rows and positions of a tensor out, in row-major
\* order, over the prompts, the entries of axis 1 and the 256 cells of a
\* 16 x 16 grid.  A latent is sampled at the QPos positions that
\* interpolate() maps to the cells 0, 2, .. of the grid, and at one
\* position that it maps to the last cell of the grid.

\* attention_store["down_cross"][2:4] + attention_store["up_cross"][:3]
BlendMaps(as) ==
    SubSeq(as["down_cross"], 3, IF Len(as["down_cross"]) < 4
                                THEN Len(as["down_cross"]) ELSE 4)
    \o SubSeq(as["up_cross"], 1, IF Len(as["up_cross"]) < 3
                                 THEN Len(as["up_cross"]) ELSE 3)

\* item.reshape(alpha_layers.shape[0], -1, 1, 16, 16, MAX_NUM_WORDS) exists
Reshapes(h, item, n) ==
    /\ ViewShape(h, item)[3] = MAX_NUM_WORDS
    /\ (item.n * ViewShape(h, item)[2]) % (n * 16 * 16) = 0

\* (maps * alpha_layers).sum(-1) for one row of a tensor (rows[q][c]) at
\* the sampled position q, with the weights alpha of a prompt
WordSum(rows, alpha, q) ==
    SumTerms([c \in 1..Cols |-> fl32(rows[q][c] * alpha[c])], Cols)

\* the size of axis 1 of item.reshape(n, -1, 1, 16, 16, MAX_NUM_WORDS)
AxisSize(h, item, n) == (item.n * ViewShape(h, item)[2]) \div (n * 16 * 16)

\* the cell of the grid that holds the sampled position q of row r (from
\* 0) of a tensor with the given number of positions
Cell(r, q, positions) == (r * positions + 2 * (q - 1)) % (16 * 16)

\* the cells of the grid that hold a sampled position of one of the maps
Populated(h, maps) ==
    UNION {{Cell(r, q, ViewShape(h, maps[i])[2]) :
              r \in 0..(maps[i].n - 1),
              q \in {u \in 1..QPos : 2 * (u - 1) < ViewShape(h, maps[i])[2]}} :
           i \in 1..Len(maps)}

\* the entry of the flat index f of a tensor with the given positions
FlatEntry(rows, positions, alpha, f) ==
    IF (f % positions) % 2 = 0 /\ (f % positions) \div 2 < QPos
    THEN WordSum(rows[(f \div positions) + 1], alpha,
                 ((f % positions) \div 2) + 1)
    ELSE 0

\* (item.reshape(..) * alpha_layers).sum(-1) at prompt b, entry a (from 0)
\* of axis 1 and cell g of the grid
Entry(h, item, n, alpha, b, a, g) ==
    FlatEntry(ViewData(h, item), ViewShape(h, item)[2], alpha[b],
              ((b - 1) * AxisSize(h, item, n) + a) * 16 * 16 + g)

RECURSIVE Axis1(_, _, _, _)
\* axis 1 of torch.cat(maps, dim=1) from map i on: the pairs of a map and
\* an entry of its axis 1
Axis1(h, maps, n, i) ==
    IF i > Len(maps) THEN << >>
    ELSE [a \in 1..AxisSize(h, maps[i], n) |-> << i, a - 1 >>]
         \o Axis1(h, maps, n, i + 1)

\* the entries of axis 1 at prompt b and cell g
Axis1Terms(h, maps, n, alpha, b, g, axis) ==
    [t \in 1..Len(axis) |->
        Entry(h, maps[axis[t][1]], n, alpha, b, axis[t][2], g)]

\* .sum over axis 1 (the numerator of .mean(1)) at prompt b and cell g
MapSum(h, maps, n, alpha, b, g, axis) ==
    SumTerms(Axis1Terms(h, maps, n, alpha, b, g, axis), Len(axis))

\* the largest of a set of float32 pairs that are not negative
MaxFloat(S) == CHOOSE x \in S : \A y \in S : ~fl32gt(y, x)

\* x.gt(threshold) for a float32 x >= 0: the Python float n / d is
\* converted to float32 (for d < 2^24 the float32 of the double is that of
\* the fraction)
GtThreshold(x, th) ==
    IF th[1] < 0 THEN TRUE
    ELSE IF th[1] = 0 THEN x[1] > 0
    ELSE fl32gt(x, fl32quot(Float(th[1], 0), Float(th[2], 0)))

\* one entry v of the mask against the maximum m of its prompt:
\* (v / m).gt(threshold); 0 / 0 is nan, which is not greater
ThresholdEntry(v, m, th) == m[1] > 0 /\ GtThreshold(fl32quot(v, m), th)

\* the maps of the prompts after .mean(1): the float32 quotient of the sum
\* over axis 1 by its size (the division of the CPU kernel; the CUDA
\* kernel's product with 1 / count is the same for a power of two);
\* sums[b][g] is the sum of prompt b at the cell g
Means(sums, count) ==
    [b \in 1..Len(sums) |-> [g \in DOMAIN sums[b] |->
        Float(fl32div(sums[b][g], count)[1], fl32div(sums[b][g], count)[2])]]

\* the cells of the 3 x 3 window of max_pool2d around the cell g
Window(g) ==
    {c \in 0..(16 * 16 - 1) :
        /\ (c \div 16) - (g \div 16) \in {-1, 0, 1}
        /\ (c % 16) - (g % 16) \in {-1, 0, 1}}

\* max_pool2d at the cell g of a map that is zero outside its domain
Pooled(map, g) ==
    MaxFloat({map[c] : c \in Window(g) \cap DOMAIN map} \cup {<<0, 0>>})

\* the cell of the grid that interpolate() takes the sampled position pp of
\* the latent from
LatentCell(pp) == IF pp <= QPos THEN 2 * (pp - 1) ELSE 16 * 16 - 1

\* mask.gt(threshold) after max_pool2d, interpolate and the division by
\* the maximum of the map, at the sampled positions of the latent
ThresholdMeans(means, th, positions) ==
    [b \in 1..Len(means) |-> [pp \in 1..positions |->
        ThresholdEntry(Pooled(means[b], LatentCell(pp)),
                       MaxFloat({means[b][g] : g \in DOMAIN means[b]}
                                \cup {<<0, 0>>}), th)]]

\* .mean(1), max_pool2d, interpolate, the division by the maximum and
\* .gt(threshold): sums[b][g] is the sum over axis 1, of size count, of the
\* map of prompt b at the cell g
Threshold(sums, count, th, positions) ==
    ThresholdMeans(Means(sums, count), th, positions)

\* the rows k of a latent x_t and m of a mask broadcast against each other
Broadcastable(k, m) == k = m \/ k = 1 \/ m = 1

\* x_t[:1] + mask * (x_t - x_t[:1]) for a mask of float rows (1 or 0): the
\* rows of the latent and of the mask broadcast, or the product raises
Composite(x_t, mask) ==
    LET k == Len(x_t.data)
        m == Len(mask)
        n == IF m = 1 THEN k ELSE m
    IN  IF ~Broadcastable(k, m)
        THEN [raised |-> TRUE, shape |-> x_t.shape, data |-> x_t.data]
        ELSE [raised |-> FALSE,
              shape |-> << n, x_t.shape[2], x_t.shape[3], x_t.shape[4] >>,
              data |-> [i \in 1..n |-> [pp \in 1..Len(x_t.data[1]) |->
                  fl32(x_t.data[1][pp]
                       + fl32(mask[IF m = 1 THEN 1 ELSE i][pp]
                              * fl32(x_t.data[IF k = 1 THEN 1 ELSE i][pp]
                                     - x_t.data[1][pp])))]]]

\* the blend with the complement of the mask
Blend_inverted(x_t, mask) ==
    Composite(x_t, [j \in 1..(Len(mask) - 1) |-> [pp \in 1..Len(mask[1]) |->
                      IF mask[1][pp] \/ mask[j + 1][pp] THEN 0 ELSE 1]])

\* the blend with the masks of the edited prompts alone: mask = mask[1:]
Blend_edited_only(x_t, mask) ==
    Composite(x_t, [j \in 1..(Len(mask) - 1) |-> [pp \in 1..Len(mask[1]) |->
                      IF mask[j + 1][pp] THEN 1 ELSE 0]])

\* x_t[:1] + mask * (x_t - x_t[:1]) with mask = (mask[:1] + mask[1:]).float():
\* the row of prompt 0 is added to the row of every later prompt
Blend(x_t, mask) ==
    Composite(x_t, [j \in 1..(Len(mask) - 1) |-> [pp \in 1..Len(mask[1]) |->
                      IF mask[1][pp] \/ mask[j + 1][pp] THEN 1 ELSE 0]])

\* the thresholded masks of the prompts, given axis 1 of the maps
MaskOver(lb, x_t, h, maps, n, axis) ==
    Threshold([b \in 1..n |-> [g \in Populated(h, maps) |->
                  MapSum(h, maps, n, lb.alpha_layers, b, g, axis)]],
              Len(axis), lb.threshold, Len(x_t.data[1]))

\* the thresholded masks of the prompts: mask.gt(self.threshold)
BlendMask(lb, x_t, h, maps, n) ==
    MaskOver(lb, x_t, h, maps, n, Axis1(h, maps, n, 1))

\* LocalBlend.__call__ from the maps on
BlendWith(lb, x_t, h, maps, n) ==
    IF maps = << >> \/ \E i \in 1..Len(maps) : ~Reshapes(h, maps[i], n)
    THEN [raised |-> TRUE, shape |-> x_t.shape, data |-> x_t.data]
    ELSE Blend(x_t, BlendMask(lb, x_t, h, maps, n))

\* LocalBlend.__call__(x_t, attention_store)
LocalBlend_call(lb, x_t, h, as) ==
    IF "down_cross" \notin DOMAIN as
    THEN [raised |-> TRUE, shape |-> x_t.shape, data |-> x_t.data]
    ELSE BlendWith(lb, x_t, h, BlendMaps(as), Len(lb.alpha_layers))

\* step_callback without the test for a local_blend
step_callback_blending(x_t) ==
    LocalBlend_call(controller.local_blend, x_t, heap, attention_store)

\* step_callback of the controller: AttentionControl.step_callback, or
\* AttentionControlEdit.step_callback
step_callback(x_t) ==
    IF IsEdit /\ controller.local_blend.attached
    THEN LocalBlend_call(controller.local_blend, x_t, heap, attention_store)
    ELSE [raised |-> FALSE, shape |-> x_t.shape, data |-> x_t.data]

\* the latents of the sampling loop: small values, and values of
\* different magnitude with full significands
Latent(seed) ==
    [shape |-> << controller.batch_size, 4, 64, 64 >>,
     data |-> [i \in 1..controller.batch_size |-> [pp \in 1..(QPos + 1) |->
                 IF seed = 1 THEN 16 * i + pp
                 ELSE IF i = 1 THEN 134217728 + 16 * pp
                 ELSE 0 - (3 * pp + i)]]]

(* ----------------------------- operations ----------------------------- *)
\* rows of the attention tensors of one network call: the batch holds the
\* unconditional and the conditional half, unless they run separately
Rows == IF LOW_RESOURCE THEN controller.batch_size * Heads
        ELSE 2 * controller.batch_size * Heads

\* the seeds of the tensors passed to the controller
Seeds == IF IsEdit THEN {1, 2} ELSE {1, 3}

\* a run goes on while the sampling loop has steps left: num_steps steps
\* for an edit strategy, MaxRun interceptions otherwise
Running == IF IsEdit THEN cur_step < controller.num_steps ELSE ncalls < MaxRun

\* the least storage id not in use
FreshSid == CHOOSE s \in 1..(Cardinality(DOMAIN heap) + 1) :
                s \notin DOMAIN heap
                /\ \A t \in 1..(s - 1) : t \in DOMAIN heap

\* the storages some reference of the stores points to
LiveSids(ss, as) == {ref.sid : ref \in RefsOf(ss) \cup RefsOf(as)}

\* an exception of the last interception has ended the run
Aborted == last.op = "call" /\ last.raised

\* the end of AttentionControl.__call__: the fields after the call and
\* the returned tensor; bs is the outcome of between_steps, if invoked,
\* and rec the entries the tensors of the step buffer had when it was
CallReturn(layer, sid, inp, runs, f, raised1, boundary, bs, rec) ==
    [recorded |-> rec,
     cur_att_layer |-> IF raised1 THEN cur_att_layer
                       ELSE IF boundary THEN 0 ELSE cur_att_layer + 1,
     cur_step |-> IF boundary THEN cur_step + 1 ELSE cur_step,
     step_store |-> bs.step_store,
     attention_store |-> bs.attention_store,
     heap |-> bs.heap,
     sid |-> sid, inp |-> inp, fwd |-> runs, boundary |-> boundary,
     is_cross |-> layer.is_cross, place |-> layer.place,
     raised |-> raised1 \/ bs.raised,
     out |-> Tensor(IF LOW_RESOURCE /\ runs /\ ~raised1 THEN f.shape
                    ELSE inp.shape,
                    bs.heap[sid].data)]

\* the counting of AttentionControl.__call__: cur_att_layer += 1 and, at
\* the last layer of the step, the step boundary
CallCount(layer, sid, inp, runs, f, raised1, h1, boundary) ==
    CallReturn(layer, sid, inp, runs, f, raised1, boundary,
               IF boundary
               THEN between_steps(h1, f.step_store, attention_store)
               ELSE [raised |-> FALSE, heap |-> h1,
                     step_store |-> f.step_store,
                     attention_store |-> attention_store],
               IF boundary
               THEN [key \in DOMAIN f.step_store |->
                       [i \in 1..Len(f.step_store[key]) |->
                           ViewData(h1, f.step_store[key][i])]]
               ELSE EmptyDict)

\* the assignment followed by the test for the last layer made on the
\* layer counter before its increment
CallAssign_late(layer, sid, inp, runs, attn, f, mismatch) ==
    CallCount(layer, sid, inp, runs, f, f.raised \/ mismatch,
              IF runs /\ ~LOW_RESOURCE /\ ~f.raised /\ ~mismatch
              THEN WriteRows(f.heap, attn, ViewData(f.heap, attn))
              ELSE f.heap,
              ~(f.raised \/ mismatch)
              /\ cur_att_layer = num_att_layers + num_uncond_att_layers)

\* the boundary test with >= in place of ==
CallAssign_atleast(layer, sid, inp, runs, attn, f, mismatch) ==
    CallCount(layer, sid, inp, runs, f, f.raised \/ mismatch,
              IF runs /\ ~LOW_RESOURCE /\ ~f.raised /\ ~mismatch
              THEN WriteRows(f.heap, attn, ViewData(f.heap, attn))
              ELSE f.heap,
              ~(f.raised \/ mismatch)
              /\ cur_att_layer + 1 >= num_att_layers + num_uncond_att_layers)

\* attn[h // 2:] = forward(...) copies the result f into the slice attn,
\* or raises when the shapes do not fit
CallAssign(layer, sid, inp, runs, attn, f, mismatch) ==
    CallCount(layer, sid, inp, runs, f, f.raised \/ mismatch,
              IF runs /\ ~LOW_RESOURCE /\ ~f.raised /\ ~mismatch
              THEN WriteRows(f.heap, attn, ViewData(f.heap, attn))
              ELSE f.heap,
              ~(f.raised \/ mismatch)
              /\ cur_att_layer + 1 = num_att_layers + num_uncond_att_layers)

\* the outcome f of the call of forward, if the layer counter is past the
\* layers of the unconditional pass
CallForward(layer, sid, inp, runs, attn, h0, f) ==
    CallAssign(layer, sid, inp, runs, attn, f,
               runs /\ ~LOW_RESOURCE /\ ~f.raised
               /\ ~Assignable(f.shape, ViewShape(h0, attn)))

\* AttentionControl.__call__ on the tensor inp in the new storage sid
CallOn(layer, sid, inp, runs, attn, h0) ==
    CallForward(layer, sid, inp, runs, attn, h0,
                IF runs
                THEN forward(h0, step_store, attn, layer.is_cross, layer.place)
                ELSE [raised |-> FALSE, heap |-> h0,
                      step_store |-> step_store, shape |-> inp.shape])

\* the slice attn[:h // 2] in place of attn[h // 2:]
Slice_lower(sid, h) == IF LOW_RESOURCE THEN Ref(sid, 0, h)
                       ELSE Ref(sid, 0, h \div 2)

\* the slice of the tensor passed to forward: attn[h // 2:], or all of it
Slice(sid, h) == IF LOW_RESOURCE THEN Ref(sid, 0, h)
                 ELSE Ref(sid, h \div 2, h - h \div 2)

\* the heap with the tensor inp in the new storage sid
Alloc(sid, inp) == [s \in DOMAIN heap \cup {sid} |->
                      IF s = sid THEN inp ELSE heap[s]]

\* AttentionControl.__call__(attn, is_cross, place_in_unet) on the tensor
\* the layer the network has reached computes from the seed: the values
\* of the fields after the call, and what the call returns
CallLayer(layer, sid, inp) ==
    CallOn(layer, sid, inp, cur_att_layer >= num_uncond_att_layers,
           Slice(sid, inp.shape[1]), Alloc(sid, inp))

AttentionControl_call(seed) ==
    CallLayer(layers[(cur_att_layer % Len(layers)) + 1], FreshSid,
              Tensor(ShapeOf(layers[(cur_att_layer % Len(layers)) + 1], Rows),
                     InputData(seed, Rows)))

\* an interception: the network calls the controller
Call(seed) ==
    /\ seed \in Seeds
    /\ ~Aborted
    /\ IF num_att_layers = -1 THEN ncalls < MaxCalls ELSE Running
    /\ \E r \in {AttentionControl_call(seed)} :
         LET live == LiveSids(r.step_store, r.attention_store)
         IN  /\ cur_att_layer' = r.cur_att_layer
             /\ cur_step' = r.cur_step
             /\ step_store' = r.step_store
             /\ attention_store' = r.attention_store
             /\ heap' = [s \in live |-> r.heap[s]]
             /\ ncalls' = ncalls + 1
             /\ uniform' = IF ncalls = 0 \/ uniform = seed THEN seed ELSE -1
             /\ history' = IF r.boundary THEN Append(history, r.recorded)
                           ELSE history
             /\ nbetween' = IF r.boundary THEN nbetween + 1 ELSE nbetween
             /\ last' = [op |-> "call", seed |-> seed, sid |-> r.sid,
                         is_cross |-> r.is_cross, place |-> r.place,
                         step |-> cur_step, layer |-> cur_att_layer,
                         fwd |-> r.fwd, boundary |-> r.boundary,
                         raised |-> r.raised, inp |-> r.inp, out |-> r.out]
    /\ UNCHANGED << LOW_RESOURCE, layers, controller, num_att_layers >>

\* AttentionControl.reset alone, without the reset of the stores
Reset_counters ==
    /\ ncalls > 0
    /\ cur_step' = 0
    /\ cur_att_layer' = 0
    /\ ncalls' = 0
    /\ nbetween' = 0
    /\ uniform' = 0
    /\ history' = << >>
    /\ last' = [op |-> "reset", step |-> cur_step, layer |-> cur_att_layer]
    /\ UNCHANGED << LOW_RESOURCE, layers, controller, num_att_layers,
                    step_store, attention_store, heap >>

\* AttentionControl.reset / AttentionStore.reset; last keeps the counters
\* the controller had
Reset ==
    /\ ncalls > 0
    /\ cur_step' = 0
    /\ cur_att_layer' = 0
    /\ step_store' = IF IsStore THEN get_empty_store ELSE step_store
    /\ attention_store' = IF IsStore THEN EmptyDict ELSE attention_store
    /\ heap' = [s \in {} |-> 0]
    /\ ncalls' = 0
    /\ nbetween' = 0
    /\ uniform' = 0
    /\ history' = << >>
    /\ last' = [op |-> "reset", step |-> cur_step, layer |-> cur_att_layer]
    /\ UNCHANGED << LOW_RESOURCE, layers, controller, num_att_layers >>

\* ptp_utils.register_attention_control: hooks the layers of the network
\* and sets the controller's num_att_layers to their number
Register ==
    /\ num_att_layers = -1
    /\ cur_att_layer = 0
    /\ num_att_layers' = Len(layers)
    /\ last' = [op |-> "register"]
    /\ UNCHANGED << LOW_RESOURCE, layers, controller, cur_step, cur_att_layer,
                    step_store, attention_store, heap, ncalls,
                    nbetween, uniform, history >>

\* the network has run all its layers, in both passes of a step if the
\* unconditional and the conditional pass run separately
PassesDone ==
    ncalls % (Len(layers) * (IF LOW_RESOURCE THEN 2 ELSE 1)) = 0

\* the sampling loop calls controller.step_callback(latents) after the
\* network call of a step
StepCallback(seed) ==
    /\ ~Aborted
    /\ last.op = "call"
    /\ PassesDone
    /\ last' = [op |-> "step_callback", x_t |-> Latent(seed),
                out |-> step_callback(Latent(seed))]
    /\ UNCHANGED << LOW_RESOURCE, layers, controller, num_att_layers, cur_step,
                    cur_att_layer, step_store, attention_store, heap,
                    ncalls, nbetween, uniform, history >>

\* a read of AttentionStore.get_average_attention()
GetAverage ==
    /\ IsStore
    /\ ~Aborted
    /\ cur_step > 0
    /\ last.op = "call"
    /\ last.boundary
    /\ last' = [op |-> "get_average_attention", step |-> cur_step,
                avg |-> get_average_attention]
    /\ UNCHANGED << LOW_RESOURCE, layers, controller, num_att_layers, cur_step,
                    cur_att_layer, step_store, attention_store, heap,
                    ncalls, nbetween, uniform, history >>

(* --------------------------- specification ---------------------------- *)
Controllers == { EmptyControl_init, AttentionStore_init }
ReplaceControllers == { ReplaceNull, ReplaceShift, ReplaceBlend,
                        ReplaceBlendWords, ReplaceBlendNull }
RefineControllers == { RefineSame, RefineInsert, RefineBlend }
ReweightControllers == { ReweightAlone, ReweightReplace, ReweightRefine,
                         ReweightNull }

Init ==
    /\ LOW_RESOURCE \in BOOLEAN
    /\ layers \in Archs
    /\ \/ controller \in Controllers
       \/ controller \in ReplaceControllers
       \/ controller \in RefineControllers
       \/ controller \in ReweightControllers
    /\ num_att_layers = -1
    /\ cur_step = 0
    /\ cur_att_layer = 0
    /\ step_store = IF controller.kind = "Empty" THEN EmptyDict
                    ELSE get_empty_store
    /\ attention_store = EmptyDict
    /\ heap = [s \in {} |-> 0]
    /\ ncalls = 0
    /\ nbetween = 0
    /\ uniform = 0
    /\ history = << >>
    /\ last = [op |-> "init"]

Next ==
    \/ \E seed \in 1..3 : Call(seed)
    \/ Reset
    \/ Register
    \/ GetAverage
    \/ \E seed \in 1..2 : StepCallback(seed)

Spec == Init /\ [][Next]_vars

(* ----------------------------- properties ----------------------------- *)
\* the rows of the tensor of an interception before the slice that forward
\* is given (h // 2 of them, or none), and the rows of one prompt in it
Off == IF LOW_RESOURCE THEN 0 ELSE Rows \div 2
PerPrompt == (Rows - Off) \div controller.batch_size

\* the last operation is an interception that returned
Returned == last.op = "call" /\ ~last.raised

\* C1: in standard mode, with num_att_layers = L >= 1, every L-th
\* interception since construction or reset completes a step: it resets
\* cur_att_layer to 0, adds exactly 1 to cur_step and invokes between_steps
\* exactly once; every other interception adds exactly 1 to cur_att_layer,
\* leaves cur_step unchanged and does not invoke between_steps.
C1_StepEveryLthCall ==
    [][(ncalls' = ncalls + 1 /\ ~LOW_RESOURCE /\ num_att_layers >= 1
        /\ ~last'.raised)
       => IF ncalls' % num_att_layers = 0
          THEN /\ cur_att_layer' = 0
               /\ cur_step' = cur_step + 1
               /\ nbetween' = nbetween + 1
          ELSE /\ cur_att_layer' = cur_att_layer + 1
               /\ cur_step' = cur_step
               /\ nbetween' = nbetween]_vars

C1_Witness ==
    /\ ~LOW_RESOURCE /\ num_att_layers = 3 /\ Returned
    /\ ncalls = 6 /\ cur_step = 2 /\ cur_att_layer = 0 /\ nbetween = 2

\* C2: in standard mode the first half of the tensor along its leading
\* axis comes back from an interception as it was passed, whatever the
\* controller; only the second half is given to forward and may change.
C2_FirstHalfUntouched ==
    (last.op = "call" /\ ~LOW_RESOURCE)
    => /\ Off = last.inp.shape[1] \div 2
       /\ \A r \in 1..Off : last.out.data[r] = last.inp.data[r]

C2_Witness ==
    /\ Returned /\ ~LOW_RESOURCE /\ IsEdit
    /\ \E r \in (Off + 1)..Rows : last.out.data[r] # last.inp.data[r]
    /\ \A r \in 1..Off : last.out.data[r] = last.inp.data[r]

\* C3: an interception that returns gives back a tensor of the shape of
\* the tensor it was passed, in either mode and for every controller.
C3_ShapePreserved ==
    Returned => /\ last.out.shape = last.inp.shape
                /\ Len(last.out.data) = last.inp.shape[1]

C3_Witness ==
    /\ Returned /\ LOW_RESOURCE /\ IsEdit /\ last.fwd
    /\ last.out.data # last.inp.data
    /\ last.out.shape = last.inp.shape

\* the window of the self-attention swap, from the argument
\* self_replace_steps as given: a number f stands for the pair (0, f), and
\* the window is [floor(num_steps * start), floor(num_steps * end))
WindowStart ==
    IF controller.self_replace_steps.is_float THEN 0
    ELSE (controller.num_steps * controller.self_replace_steps.lo[1])
            \div controller.self_replace_steps.lo[2]
WindowEnd ==
    (controller.num_steps * controller.self_replace_steps.hi[1])
        \div controller.self_replace_steps.hi[2]

\* C4: forward of an edit controller on a self-attention tensor, at a step
\* t of the window s <= t < e and with at most 16^2 spatial positions,
\* returns for every edited prompt the self-attention of the reference
\* prompt; at a step outside the window, or with more positions, it
\* returns the tensor as it was passed.
C4_SelfAttentionWindow ==
    (Returned /\ IsEdit /\ last.fwd /\ ~last.is_cross)
    => IF WindowStart <= last.step /\ last.step < WindowEnd
          /\ last.inp.shape[2] <= 16 * 16
       THEN \A b \in 1..(controller.batch_size - 1) : \A j \in 1..PerPrompt :
               /\ last.out.data[Off + b * PerPrompt + j]
                     = last.inp.data[Off + j]
               /\ last.out.data[Off + j] = last.inp.data[Off + j]
       ELSE last.out.data = last.inp.data

C4_Witness ==
    /\ Returned /\ IsEdit /\ last.fwd /\ ~last.is_cross
    /\ WindowStart <= last.step /\ last.step < WindowEnd
    /\ last.inp.shape[2] = 16 * 16
    /\ last.out.data # last.inp.data

\* a second state of the claim's case: a self-attention tensor of 32^2
\* positions inside the window comes back unchanged
C4_TooLarge ==
    /\ Returned /\ IsEdit /\ last.fwd /\ ~last.is_cross
    /\ WindowStart <= last.step /\ last.step < WindowEnd
    /\ last.inp.shape[2] > 16 * 16

\* C5: the step buffer and the cumulative store hold no tensor of more
\* than 32^2 spatial positions; the key axis of a stored cross-attention
\* tensor has MAX_NUM_WORDS entries and that of a stored self-attention
\* tensor as many as its spatial axis, so no stored tensor has a key axis
\* of more than 32^2 entries either.  Larger tensors are dropped.
C5_NoLargeTensorStored ==
    \A ref \in RefsOf(step_store) \cup RefsOf(attention_store) :
        /\ ViewShape(heap, ref)[2] <= 32 * 32
        /\ ViewShape(heap, ref)[3] <= 32 * 32

C5_Witness ==
    /\ Returned /\ IsStore /\ last.fwd /\ last.is_cross
    /\ last.inp.shape[2] > 32 * 32
    /\ cur_step = 1 /\ last.boundary
    /\ DOMAIN attention_store = Keys
    /\ attention_store["down_cross"] = << >>
    /\ Len(attention_store["down_self"]) = 1
\* the tensor an AttentionStore records at every layer when every
\* interception is passed the tensor of seed u: the slice given to forward
Recorded(u) == [r \in 1..(Rows - Off) |-> InputData(u, Rows)[Off + r]]

RECURSIVE RunningSum(_, _)
\* the float32 sum x + x + ... + x of n terms, accumulated in place
RunningSum(x, n) == IF n <= 1 THEN x ELSE fl32(RunningSum(x, n - 1) + x)

\* the last operation read the average of an AttentionStore that recorded
\* the same tensor at every layer in every completed step
AverageOfEqualSteps ==
    /\ last.op = "get_average_attention"
    /\ controller.kind = "Store"
    /\ uniform >= 1

\* C6 as stated: after S >= 1 completed steps that recorded the same
\* tensor T at (key, position), get_average_attention returns exactly T
\* there.
C6_AverageIsExactlyT ==
    AverageOfEqualSteps
    => \A key \in DOMAIN last.avg : \A i \in 1..Len(last.avg[key]) :
         \A r \in 1..(Rows - Off) : \A q \in 1..QPos : \A c \in 1..Cols :
            last.avg[key][i].data[r][q][c] = << Recorded(uniform)[r][q][c], 0 >>

\* C6, amended: the value returned at an entry is the float32 quotient by
\* cur_step of the float32 sum accumulated over the completed steps; after
\* S steps that recorded T it is exactly T when S <= 2 or when the sums
\* T + ... + T need no rounding.
C6_AverageIsRoundedQuotient ==
    AverageOfEqualSteps
    => \A key \in DOMAIN last.avg : \A i \in 1..Len(last.avg[key]) :
         \A r \in 1..(Rows - Off) : \A q \in 1..QPos : \A c \in 1..Cols :
            /\ last.avg[key][i].data[r][q][c]
                  = fl32div(RunningSum(Recorded(uniform)[r][q][c], last.step),
                            last.step)
            /\ (last.step <= 2 \/ last.step * Recorded(uniform)[r][q][c] < Mant)
               => last.avg[key][i].data[r][q][c]
                     = << Recorded(uniform)[r][q][c], 0 >>

C6_Witness ==
    /\ AverageOfEqualSteps /\ uniform = 3 /\ last.step = 3
    /\ \E key \in DOMAIN last.avg : \E i \in 1..Len(last.avg[key]) :
          last.avg[key][i].data[1][1][1] # << Recorded(3)[1][1][1], 0 >>

\* the controller has a LocalBlend attached
HasBlend == IsEdit /\ controller.local_blend.attached

\* C7: without a local_blend, step_callback returns the latent it was
\* passed, unchanged, and changes no field of the controller.
C7_StepCallbackIdentity ==
    [][(last'.op = "step_callback" /\ ~HasBlend)
       => /\ last'.out = [raised |-> FALSE, shape |-> last'.x_t.shape,
                          data |-> last'.x_t.data]
          /\ UNCHANGED << num_att_layers, cur_step, cur_att_layer,
                          step_store, attention_store, heap >>]_vars

C7_Witness ==
    /\ last.op = "step_callback" /\ ~HasBlend /\ IsEdit /\ cur_step = 1
    /\ last.out.data = last.x_t.data
    /\ last.x_t.data[2] # last.x_t.data[1]

\* C8: once an interception has returned, the controller holds no
\* reference to storage of the tensor it was passed.
C8_NoAliasRetained ==
    last.op = "call"
    => last.sid \notin LiveSids(step_store, attention_store)

\* the layers of the network whose tensors go under the key
StoredLayers(key) ==
    {i \in 1..Len(layers) :
        /\ KeyOf(layers[i].place, layers[i].is_cross) = key
        /\ layers[i].res <= 32 * 32}

\* C9 as stated: from construction on the step buffer and the cumulative
\* store have the same six keys.
C9_SameKeysAlways ==
    IsStore => /\ DOMAIN step_store = Keys
               /\ DOMAIN attention_store = Keys

\* C9, amended: the step buffer always has the six keys; the cumulative
\* store has no key at construction, after reset and until the first step
\* is complete, and the six keys from then on; from the first step on it
\* holds under every key one tensor per layer that records under it, the
\* same number after every step.
C9_KeysAfterFirstStep ==
    IsStore => /\ DOMAIN step_store = Keys
               /\ DOMAIN attention_store = IF cur_step = 0 THEN {} ELSE Keys
               /\ \A key \in DOMAIN attention_store :
                     Len(attention_store[key]) = Cardinality(StoredLayers(key))

C9_Witness ==
    /\ IsStore /\ cur_step = 2 /\ Len(layers) = 3
    /\ DOMAIN attention_store = Keys
    /\ Len(attention_store["mid_cross"]) = 2
    /\ Len(attention_store["mid_self"]) = 1

\* the controller is an AttentionReplace whose mapper is the identity
\* and whose cross-replace weight is 1 for every token at the step
NullReplace(step) ==
    /\ controller.kind = "Replace"
    /\ controller.mapper = IdentityMapper(controller.batch_size)
    /\ \A b \in 1..(controller.batch_size - 1) : \A n \in 1..Cols :
          controller.cross_replace_alpha[step + 1][b][n] = 1

\* C10: with the identity mapper and cross-replace weight 1, forward of
\* an AttentionReplace returns for every edited prompt exactly the
\* cross-attention of the reference prompt.
C10_NullReplaceCopiesReference ==
    (Returned /\ last.fwd /\ last.is_cross /\ NullReplace(last.step))
    => \A b \in 1..(controller.batch_size - 1) : \A j \in 1..PerPrompt :
          /\ last.out.data[Off + b * PerPrompt + j] = last.inp.data[Off + j]
          /\ last.out.data[Off + j] = last.inp.data[Off + j]

C10_Witness ==
    /\ Returned /\ last.fwd /\ last.is_cross /\ NullReplace(last.step)
    /\ last.step = 1
    /\ last.out.data[Off + PerPrompt + 1] # last.inp.data[Off + PerPrompt + 1]
    /\ last.out.data[Off + PerPrompt + 1] = last.inp.data[Off + 1]
\* the controller is an AttentionReweight without wrapped controller, or
\* with a wrapped AttentionReplace whose mapper is the identity (it returns
\* the reference attention), and the cross-replace weight is 1 for every
\* token at the step
PlainReweight(step) ==
    /\ controller.kind = "Reweight"
    /\ \/ controller.prev_controller.kind = "None"
       \/ /\ controller.prev_controller.kind = "Replace"
          /\ controller.prev_controller.mapper
                = IdentityMapper(controller.batch_size)
    /\ \A b \in 1..(controller.batch_size - 1) : \A n \in 1..Cols :
          controller.cross_replace_alpha[step + 1][b][n] = 1

\* the entry of the equalizer for the edited prompt b at token n (an
\* equalizer of one row serves every edited prompt)
EqualizerAt(b, n) ==
    controller.equalizer[IF Len(controller.equalizer) = 1 THEN 1 ELSE b][n]

\* C11: forward of such an AttentionReweight returns, for every edited
\* prompt, head and query position, the reference cross-attention at the
\* tokens where the equalizer is 1 and the float32 product of the
\* equalizer's value and the reference cross-attention at the others.
C11_ReweightScalesReference ==
    (Returned /\ last.fwd /\ last.is_cross /\ PlainReweight(last.step))
    => \A b \in 1..(controller.batch_size - 1) : \A j \in 1..PerPrompt :
         \A q \in 1..QPos : \A n \in 1..Cols :
            last.out.data[Off + b * PerPrompt + j][q][n]
               = IF EqualizerAt(b, n) = 1 THEN last.inp.data[Off + j][q][n]
                 ELSE fl32(EqualizerAt(b, n) * last.inp.data[Off + j][q][n])

C11_Witness ==
    /\ Returned /\ last.fwd /\ last.is_cross /\ PlainReweight(last.step)
    /\ controller.prev_controller.kind = "Replace"
    /\ controller.equalizer = get_equalizer(<< Cols >>, << 3 >>)
    /\ last.out.data[Off + 2 * PerPrompt + 1][1][Cols]
          = 3 * last.inp.data[Off + 1][1][Cols]
    /\ last.out.data[Off + 2 * PerPrompt + 1][1][1] = last.inp.data[Off + 1][1][1]
    /\ last.inp.data[Off + 2 * PerPrompt + 1][1][1] # last.inp.data[Off + 1][1][1]
\* the last operation is a step_callback whose LocalBlend returned
Blended == last.op = "step_callback" /\ HasBlend /\ ~last.out.raised

\* the thresholded masks of the prompts in that call
LastMask ==
    BlendMask(controller.local_blend, last.x_t, heap,
              BlendMaps(attention_store),
              Len(controller.local_blend.alpha_layers))

\* the mask the call composites the edited prompt i with
FinalMask(i, pp) == LastMask[1][pp] \/ LastMask[i][pp]

\* C12 as stated: the latent returned by step_callback is, for every
\* edited prompt and position, the edited latent passed in where the final
\* mask is true and the reference latent where it is false; the reference
\* latent is returned unchanged.
C12_BlendSelectsLatent ==
    Blended
    => \A i \in 1..Len(last.x_t.data) : \A pp \in 1..Len(last.x_t.data[i]) :
          last.out.data[i][pp]
             = IF i > 1 /\ FinalMask(i, pp) THEN last.x_t.data[i][pp]
               ELSE last.x_t.data[1][pp]

\* C12, amended: the reference latent is returned unchanged and, for an
\* edited prompt, the reference latent where the final mask is false; where
\* it is true the result is the float32 value of x0 + (x - x0), which is the
\* edited latent x when the difference and the sum need no rounding.  The
\* call returns only for two prompts; for more it raises.
C12_BlendIsRoundedSum ==
    /\ Blended
       => /\ controller.batch_size = 2
          /\ \A i \in 1..Len(last.x_t.data) : \A pp \in 1..Len(last.x_t.data[i]) :
               LET x0 == last.x_t.data[1][pp]
                   x == last.x_t.data[i][pp]
                   y == last.out.data[i][pp]
               IN  /\ i = 1 => y = x0
                   /\ (i > 1 /\ ~FinalMask(i, pp)) => y = x0
                   /\ (i > 1 /\ FinalMask(i, pp)) => y = fl32(x0 + fl32(x - x0))
                   /\ (i > 1 /\ FinalMask(i, pp) /\ x0 >= 0 /\ x >= x0
                       /\ x < Mant) => y = x
    /\ (last.op = "step_callback" /\ HasBlend /\ controller.batch_size > 2)
       => last.out.raised

C12_Witness ==
    /\ Blended
    /\ \E pp \in 1..QPos :
          /\ FinalMask(2, pp)
          /\ last.out.data[2][pp] # last.x_t.data[2][pp]
          /\ last.out.data[2][pp] # last.x_t.data[1][pp]
    /\ \E pp \in 1..(QPos + 1) :
          ~FinalMask(2, pp) /\ last.out.data[2][pp] = last.x_t.data[1][pp]

\* C13 as stated: the mask of the compositing is the union of the
\* thresholded masks of the edited prompts; the mask of the reference
\* prompt alone adds no position, so that where the mask of no edited
\* prompt is true the reference latent is returned.
C13_MaskOfEditedPrompts ==
    Blended
    => \A pp \in 1..Len(last.x_t.data[1]) :
          (\A i \in 2..Len(last.x_t.data) : ~LastMask[i][pp])
          => \A i \in 2..Len(last.x_t.data) :
                last.out.data[i][pp] = last.x_t.data[1][pp]

\* C13, amended: the edited prompt is composited with the union of its
\* own thresholded mask and that of the reference prompt: the returned
\* latent differs from the reference latent exactly at the positions where
\* one of the two masks is true.
C13_MaskIncludesReference ==
    Blended
    => \A pp \in 1..Len(last.x_t.data[1]) :
          (last.out.data[2][pp] # last.x_t.data[1][pp])
          <=> (LastMask[1][pp] \/ LastMask[2][pp])

C13_Witness ==
    /\ Blended
    /\ \E pp \in 1..QPos :
          /\ LastMask[1][pp] /\ ~LastMask[2][pp]
          /\ last.out.data[2][pp] # last.x_t.data[1][pp]

\* a second state of the case: a position that only the mask of the edited
\* prompt holds
C13_EditedOnly ==
    /\ Blended
    /\ \E pp \in 1..QPos :
          /\ ~LastMask[1][pp] /\ LastMask[2][pp]
          /\ last.out.data[2][pp] # last.x_t.data[1][pp]
RECURSIVE StepSum(_, _, _, _, _, _)
\* the entry (r, q, c) of the sum of the tensors recorded at (key, i) in
\* the first n steps, added in float32 in the order of the steps
StepSum(key, i, r, q, c, n) ==
    IF n <= 1 THEN history[1][key][i][r][q][c]
    ELSE fl32(StepSum(key, i, r, q, c, n - 1) + history[n][key][i][r][q][c])

\* C14: right after a step boundary of an AttentionStore or an edit
\* controller the step buffer has the six keys with empty sequences, and
\* the entry (key, i) of the cumulative store is the elementwise float32
\* sum, over the steps completed since construction or reset, of the tensor
\* recorded at (key, i) in the step.
C14_CumulativeStoreIsSum ==
    (IsStore /\ Returned /\ last.boundary)
    => /\ step_store = get_empty_store
       /\ Len(history) = cur_step
       /\ DOMAIN attention_store = Keys
       /\ \A key \in Keys :
            /\ \A n \in 1..cur_step :
                  Len(history[n][key]) = Len(attention_store[key])
            /\ \A i \in 1..Len(attention_store[key]) :
                 \A r \in 1..(Rows - Off) : \A q \in 1..QPos : \A c \in 1..Cols :
                    ViewData(heap, attention_store[key][i])[r][q][c]
                       = StepSum(key, i, r, q, c, cur_step)

C14_Witness ==
    /\ IsEdit /\ Returned /\ last.boundary /\ cur_step = 2
    /\ step_store = get_empty_store
    /\ \E key \in Keys :
          /\ Len(attention_store[key]) = 2
          /\ history[1][key][2] # history[2][key][2]
          /\ ViewData(heap, attention_store[key][2])
                = AddRows(history[1][key][2], history[2][key][2])

\* a second state of the case: three steps of an AttentionStore whose sum
\* is rounded
C14_Rounded ==
    /\ controller.kind = "Store" /\ Returned /\ last.boundary /\ cur_step = 3
    /\ \E key \in Keys :
          /\ Len(attention_store[key]) = 1
          /\ ViewData(heap, attention_store[key][1])[1][1][1]
                # history[1][key][1][1][1][1] + history[2][key][1][1][1][1]
                  + history[3][key][1][1][1][1]
\* the last operation is a call of forward of an edit controller on a
\* cross-attention tensor
CrossEdited == Returned /\ IsEdit /\ last.fwd /\ last.is_cross

\* the reference map and the maps of the edited prompts in the tensor
\* forward was given: attn_base, attn_repalce = attn[0], attn[1:]
LastBase ==
    Tensor(<< PerPrompt, last.inp.shape[2], last.inp.shape[3] >>,
           [j \in 1..PerPrompt |-> last.inp.data[Off + j]])
LastEdited ==
    Tensor(<< controller.batch_size - 1, PerPrompt, last.inp.shape[2],
              last.inp.shape[3] >>,
           [b \in 1..(controller.batch_size - 1) |->
               [j \in 1..PerPrompt |-> last.inp.data[Off + b * PerPrompt + j]]])

\* the entry of the replacement E' of the strategy for the edited prompt b
Replacement(b, j, q, n) ==
    LET new == replace_cross_attention(controller, LastBase, LastEdited)
    IN  new.data[IF Len(new.data) = 1 THEN 1 ELSE b][j][q][n]

\* C15: forward of an edit controller on a cross-attention tensor at step
\* t returns, for every edited prompt and token, a[t] * E' + (1 - a[t]) * E
\* with E the map passed in, E' the replacement of the strategy and a the
\* cross-replace weight: E where a[t] = 0, E' where a[t] = 1.  This holds
\* at every step, inside the self-attention window or not.
C15_CrossAttentionGating ==
    CrossEdited
    => \A b \in 1..(controller.batch_size - 1) : \A j \in 1..PerPrompt :
         \A q \in 1..QPos : \A n \in 1..Cols :
            LET a == controller.cross_replace_alpha[last.step + 1][b][n]
                E == last.inp.data[Off + b * PerPrompt + j][q][n]
                y == last.out.data[Off + b * PerPrompt + j][q][n]
            IN  /\ y = fl32(fl32(a * Replacement(b, j, q, n))
                            + fl32((1 - a) * E))
                /\ a = 0 => y = E
                /\ a = 1 => y = Replacement(b, j, q, n)

C15_Witness ==
    /\ CrossEdited
    /\ ~(WindowStart <= last.step /\ last.step < WindowEnd)
    /\ \A n \in 1..Cols : controller.cross_replace_alpha[last.step + 1][1][n] = 1
    /\ last.out.data[Off + PerPrompt + 1] # last.inp.data[Off + PerPrompt + 1]

\* a second state of the case: weight 0 inside the self-attention window
C15_Inactive ==
    /\ CrossEdited
    /\ WindowStart <= last.step /\ last.step < WindowEnd
    /\ \A n \in 1..Cols : controller.cross_replace_alpha[last.step + 1][1][n] = 0
    /\ last.out.data = last.inp.data
    /\ Replacement(1, 1, 1, 1) # last.inp.data[Off + PerPrompt + 1][1][1]
\* C16: in low-resource mode, with num_att_layers = L >= 1, a step has
\* exactly 2L interceptions.  Each of the first L returns the tensor it was
\* passed, without a call of forward and without recording anything; each
\* of the other L gives the whole tensor to forward; the step boundary
\* comes with the 2L-th and with no other.
C16_LowResourceStep ==
    [][(ncalls' = ncalls + 1 /\ LOW_RESOURCE /\ num_att_layers >= 1
        /\ ~last'.raised)
       => LET k == ncalls % (2 * num_att_layers)
              key == KeyOf(last'.place, last'.is_cross)
          IN  /\ last'.fwd = (k >= num_att_layers)
              /\ last'.boundary = (k = 2 * num_att_layers - 1)
              /\ IF last'.boundary
                 THEN /\ cur_att_layer' = 0
                      /\ cur_step' = cur_step + 1
                      /\ nbetween' = nbetween + 1
                 ELSE /\ cur_att_layer' = cur_att_layer + 1
                      /\ cur_step' = cur_step
                      /\ nbetween' = nbetween
              /\ k < num_att_layers
                 => /\ last'.out = last'.inp
                    /\ UNCHANGED << step_store, attention_store, heap >>
              /\ (k >= num_att_layers /\ IsStore
                  /\ last'.inp.shape[2] <= 32 * 32)
                 => IF last'.boundary
                    THEN /\ history'[cur_step'][key] # << >>
                         /\ history'[cur_step'][key][Len(history'[cur_step'][key])]
                               = last'.out.data
                    ELSE /\ step_store'[key] # << >>
                         /\ step_store'[key][Len(step_store'[key])]
                               = Ref(last'.sid, 0, last'.inp.shape[1])
              /\ (k >= num_att_layers /\ IsEdit /\ last'.is_cross)
                 => \A r \in 1..(Rows \div controller.batch_size) :
                       last'.out.data[r] = last'.inp.data[r]]_vars

C16_Witness ==
    /\ LOW_RESOURCE /\ num_att_layers = 2 /\ IsEdit /\ Returned
    /\ ncalls = 4 /\ cur_step = 1 /\ cur_att_layer = 0 /\ nbetween = 1
    /\ last.fwd /\ last.boundary
    /\ last.out.data # last.inp.data
\* the interceptions of one step
CallsPerStep == num_att_layers * (IF LOW_RESOURCE THEN 2 ELSE 1)

\* C17: in a run of an edit controller from construction or reset, of
\* num_steps steps of L interceptions each, every interception of the j-th
\* step (from 0) sees cur_step = j, which lies in [0, num_steps); after the last
\* interception cur_step = num_steps and cur_att_layer = 0.
C17_StepIndexInRange ==
    (IsEdit /\ num_att_layers >= 1 /\ last.op = "call")
    => /\ last.step = (ncalls - 1) \div CallsPerStep
       /\ last.layer = (ncalls - 1) % CallsPerStep
       /\ 0 <= last.step /\ last.step < controller.num_steps
       /\ ncalls <= controller.num_steps * CallsPerStep
       /\ ~last.raised
       /\ ncalls = controller.num_steps * CallsPerStep
          => cur_step = controller.num_steps /\ cur_att_layer = 0

C17_Witness ==
    /\ IsEdit /\ ~LOW_RESOURCE /\ num_att_layers = 3 /\ Returned
    /\ controller.num_steps = 3
    /\ ncalls = 9 /\ last.step = 2 /\ last.layer = 2
    /\ cur_step = 3 /\ cur_att_layer = 0
\* C18: forward of an edit controller returns the rows of prompt 0, the
\* reference, as they were passed, at every step and for cross- and
\* self-attention tensors; only rows of the other prompts change.
C18_ReferenceNeverEdited ==
    (Returned /\ IsEdit /\ last.fwd)
    => /\ \A j \in 1..PerPrompt : last.out.data[Off + j] = last.inp.data[Off + j]
       /\ \A r \in 1..Rows :
             last.out.data[r] # last.inp.data[r] => r > Off + PerPrompt

C18_Witness ==
    /\ Returned /\ last.fwd /\ controller.kind = "Reweight" /\ last.is_cross
    /\ controller.batch_size = 3
    /\ last.out.data[Off + PerPrompt + 1] # last.inp.data[Off + PerPrompt + 1]
    /\ last.out.data[Off + 2 * PerPrompt + 1]
          # last.inp.data[Off + 2 * PerPrompt + 1]
    /\ last.out.data[Off + 1] = last.inp.data[Off + 1]
\* C19: reset, in any state of an AttentionStore or an edit controller,
\* mid-step included, sets cur_step and cur_att_layer to 0, the step buffer
\* to the six keys with empty sequences and the cumulative store to the
\* empty mapping, and leaves num_att_layers and the configuration as they
\* were: the fields are those of a new controller with that
\* num_att_layers, so that a run from there is the run of a new one.
C19_ResetRestoresInitialState ==
    [][(last'.op = "reset" /\ IsStore)
       => /\ cur_step' = 0 /\ cur_att_layer' = 0
          /\ step_store' = get_empty_store
          /\ attention_store' = EmptyDict
          /\ RefsOf(step_store') \cup RefsOf(attention_store') = {}
          /\ ncalls' = 0 /\ nbetween' = 0 /\ history' = << >>
          /\ UNCHANGED << num_att_layers, controller, LOW_RESOURCE, layers >>]_vars

C19_Witness ==
    /\ last.op = "reset" /\ IsEdit /\ num_att_layers = 3
    /\ last.step = 1 /\ last.layer = 2
    /\ cur_step = 0 /\ cur_att_layer = 0
    /\ step_store = get_empty_store /\ attention_store = EmptyDict
\* C20: no operation of the controller (interception, step boundary, step
\* callback, read of the average, reset) assigns num_att_layers, and while
\* it is -1 in standard mode an interception reaches no step boundary:
\* cur_step stays 0, between_steps is not invoked and cur_att_layer grows
\* by one.
C20_LayersNeverEstablished ==
    [][/\ last'.op # "register" => num_att_layers' = num_att_layers
       /\ (last'.op = "call" /\ num_att_layers = -1 /\ ~LOW_RESOURCE)
          => /\ ~last'.boundary
             /\ cur_step = 0 /\ cur_step' = 0
             /\ nbetween = 0 /\ nbetween' = 0
             /\ history' = << >>
             /\ cur_att_layer' = cur_att_layer + 1]_vars

C20_Witness ==
    /\ last.op = "call" /\ num_att_layers = -1 /\ ~LOW_RESOURCE /\ IsStore
    /\ ncalls = MaxCalls /\ cur_att_layer = MaxCalls
    /\ cur_step = 0 /\ nbetween = 0

====
